---- MODULE Spec2Model ----
(***************************************************************************)
(* Model of the UDP telemetry receiver (moni2.py): the ingestion loop of   *)
(* udp_receiver with its phase-sequence validation, wire-line parsing,     *)
(* duplicate suppression and bounded log; the lock and the GUI readers;    *)
(* the ON / OFF handlers and the receiver threads they start and stop.     *)
(* Model of the sender (disp2.py): run, control_listener, send_data_loop    *)
(* with send errors and late wake-ups, and format_udp_packet.              *)
(*                                                                         *)
(* Text is modelled as a sequence of tokens.  A token is either one of the *)
(* separator characters "|", ",", ":", " " or a run of other characters    *)
(* (such as "IDLE" or "SOC"), so that Python's split, strip and `in` act   *)
(* on a token sequence exactly as they act on the characters.              *)
(* Time is counted in ticks of 10 ms.                                      *)
(***************************************************************************)
EXTENDS Integers, Sequences, FiniteSets, TLC

VARIABLES
    data_rows,               \* moni2.py:362  the log, a list of [timestamp, parsed_data]
    current_sequence_index,  \* moni2.py:371  expected phase index
    last_received_data,      \* moni2.py:366  remembered line and time of the suppressor
    current_state,           \* moni2.py:375  state shown by the panel
    data_on,                 \* moni2.py:374  run flag
    line,                    \* udp_receiver local: the stripped line of this iteration
    timestamp,               \* udp_receiver local: time.time() taken at the loop top
    current_index,           \* udp_receiver local: expected index read by the validator
    verdict,                 \* where the last iteration left the loop body
    rpc,                     \* position of the receiver thread in its loop
    now,                     \* the clock
    deadline,                \* time at which the pending recvfrom times out
    busy_until,              \* time at which the loop body of this iteration is done
    sockbuf,                 \* datagrams queued in the socket
    arrivals,                \* arrival time of each datagram delivered so far
    fed,                     \* number of lines of the scenario fed so far
    lock,                    \* moni2.py:363  holder of the lock
    wpc,                     \* position of the receiver thread from loop body to log update
    gpc,                     \* position of the GUI thread in a panel update
    latest_row,              \* panel update local: the row read from the log
    shown_time,              \* panel update local: the reception time it displays
    off_time,                \* time at which on_off cleared the run flag
    thr,                     \* position of each receiver thread ever started
    hold,                    \* per thread: the datagram returned by recvfrom, and when
    udp_thread,              \* moni2.py:361  the thread the GUI knows, 0 for None
    opc,                     \* position of the GUI thread in on_on / on_off
    epoch,                   \* number of times ON was pressed
    row_epoch,               \* per log row: value of epoch when its datagram was received
    is_sending,              \* disp2.py:124  the sender's session flag
    sthr,                    \* position of each send thread ever started
    target,                  \* send_data_loop local of each thread: target_send_time
    start_time,              \* disp2.py:120  start of the schedule
    cycle_count,             \* disp2.py:121  cycle number within the schedule
    network_errors,          \* disp2.py:143  stats['network_errors']
    current_state_index,     \* disp2.py:150  phase the sender simulates
    params,                  \* disp2.py:154-156  random session parameters: number of the draw
    snow,                    \* the sender's clock, in half seconds
    payload,                 \* control_listener local: the last control payload
    stopped,                 \* per send thread: an OFF was handled while it ran
    late_sends,              \* per send thread: payloads it sent after that OFF
    reinits,                 \* number of calls of setup_sockets made by send_data_loop
    fail_run,                \* number of sendto failures since the last sendto that succeeded
    error_count,             \* udp_receiver local (moni2.py:427): receive errors counted
    fired,                   \* number of wake-ups of precision_sleep in the session
    late,                    \* lateness of the latest wake-up: actual_send_time - target_send_time
    phase_payloads,          \* payloads generated per phase since the phase sequence last began
    cursor_active,           \* moni2.py:732  the cursor is active
    cursor_idx,              \* moni2.py:731  index into data_rows the cursor points at
    is_running,              \* disp2.py:123  the sender reports itself as running
    control_thread,          \* disp2.py:514-515  the control listener thread was started
    run_pc,                  \* position of the sender's run()
    bind_failed,             \* a receiver thread died in sock.bind (moni2.py:400)
    tx_data,                 \* format_udp_packet argument: the sample as an ordered mapping
    tx_packet,               \* the text of the packet format_udp_packet returned
    rx_data,                 \* parsed_data the receiver's parser made of that packet
    ref_rows,                \* log of the reference pipeline
    ref_index,               \* expected phase index of the reference pipeline
    ref_last                 \* remembered line and time of the reference pipeline's suppressor

vars == << data_rows, current_sequence_index, last_received_data, current_state,
           data_on, line, timestamp, current_index,
           verdict, rpc, now, deadline, busy_until, sockbuf, arrivals, fed,
           lock, wpc, gpc, latest_row, shown_time, off_time,
           thr, hold, udp_thread, opc, epoch, row_epoch,
           is_sending, sthr, target, start_time, cycle_count, network_errors,
           current_state_index, params, snow, payload, stopped, late_sends,
           reinits, fail_run,
           error_count, fired, late, phase_payloads, cursor_active, cursor_idx, is_running, control_thread, run_pc, bind_failed,
           tx_data, tx_packet, rx_data, ref_rows, ref_index, ref_last >>

pipeVars == << data_rows, current_sequence_index, last_received_data, current_state,
               line, current_index, verdict >>

loopVars == << data_on, rpc, now, deadline, busy_until, sockbuf, arrivals >>

\* the lock and the GUI thread
guiVars == << lock, wpc, gpc, latest_row, shown_time >>

\* state used by the models of the session handlers and of the sender
\* receiver threads and the ON / OFF handlers
sessVars == << thr, hold, udp_thread, opc, epoch, row_epoch >>

\* the sender (disp2.py)
senderVars == << is_sending, sthr, target, start_time, cycle_count, network_errors,
                 current_state_index, params, snow, payload, stopped, late_sends,
                 reinits, fail_run >>

\* state used by the models of receive errors, of the send schedule with late
\* wake-ups, of the start of the two programs, of the packet format and of the
\* reference pipeline
auxVars == << error_count, fired, late, phase_payloads, cursor_active, cursor_idx, is_running, control_thread, run_pc, bind_failed,
              tx_data, tx_packet, rx_data, ref_rows, ref_index, ref_last >>

restVars == << off_time, sessVars, senderVars, auxVars >>

extVars == << guiVars, restVars >>

-----------------------------------------------------------------------------
(* Bounds of the model *)

MaxRows == 3
MaxTime == 40
MaxClock == 60
MaxLag == 1
MaxFirstArrival == 12
MaxGap == 30
MaxOffTime == 12
MaxThreads == 2
MaxSendThreads == 2
MaxCycles == 2
MaxSenderClock == 2
MaxErrorCycles == 2
MaxErrorClock == 4
MaxReinits == 1
MaxRecvErrorClock == 11
MaxLateness == 1
MaxFired == 152
MaxFields == 2
MaxRestartClock == 10
MaxRestartCycles == 6

(* Program constants, in ticks of 10 ms or in entries *)

DUP_WINDOW == 20
RECV_TIMEOUT == 10
OFF_SLEEP == 10
MAX_DATA_POINTS == 3600
EVICT_EXTRA == 600
RECV_ERROR_LIMIT == 10

expected_state_sequence ==
    << <<"IDLE">>, <<"STARTUP">>, <<"MAIN_FUELING">>, <<"SHUTDOWN">> >>

-----------------------------------------------------------------------------
(* Python string and list operations on token sequences *)

Contains(s, c) == \E i \in 1..Len(s) : s[i] = c

FirstPos(s, c) ==
    CHOOSE i \in 1..Len(s) : s[i] = c /\ \A j \in 1..(i - 1) : s[j] # c

\* s.split(c, 1)
SplitOnce(s, c) ==
    IF Contains(s, c)
    THEN << SubSeq(s, 1, FirstPos(s, c) - 1), SubSeq(s, FirstPos(s, c) + 1, Len(s)) >>
    ELSE << s >>

\* s.split(c)
RECURSIVE SplitAll(_, _)
SplitAll(s, c) ==
    IF Contains(s, c)
    THEN << SubSeq(s, 1, FirstPos(s, c) - 1) >>
         \o SplitAll(SubSeq(s, FirstPos(s, c) + 1, Len(s)), c)
    ELSE << s >>

\* s.strip()
RECURSIVE Strip(_)
Strip(s) ==
    IF s = << >> THEN s
    ELSE IF Head(s) = " " THEN Strip(Tail(s))
    ELSE IF s[Len(s)] = " " THEN Strip(SubSeq(s, 1, Len(s) - 1))
    ELSE s

\* x in lst
InList(lst, x) == \E i \in 1..Len(lst) : lst[i] = x

\* lst.index(x), counted from 0
ListIndex(lst, x) == (CHOOSE i \in 1..Len(lst) : lst[i] = x /\ \A j \in 1..(i - 1) : lst[j] # x) - 1

\* d[k] = v on an insertion-ordered dict, kept as a sequence of <<key, value>>
DictSet(d, k, v) ==
    IF \E i \in 1..Len(d) : d[i][1] = k
    THEN [i \in 1..Len(d) |-> IF d[i][1] = k THEN << k, v >> ELSE d[i]]
    ELSE Append(d, << k, v >>)

\* d[k]
DictGet(d, k) == d[CHOOSE i \in 1..Len(d) : d[i][1] = k][2]

-----------------------------------------------------------------------------
(* The phase-sequence validation of udp_receiver (moni2.py:490-522) *)

KnownPhase(state) == InList(expected_state_sequence, state)

PhaseIndex(state) == ListIndex(expected_state_sequence, state)

\* the text before the first "|": the state the validator examines
TempState(ln) == SplitOnce(ln, "|")[1]

FirstSampleIndex_Keep(temp_state, csi) == csi

\* a first sample that always starts the sequence at IDLE
FirstSampleIndex_Zero(temp_state, csi) == 0

\* first sample of the session: any state is accepted, a known one sets the index
FirstSampleIndex(temp_state, csi) ==
    IF KnownPhase(temp_state) THEN PhaseIndex(temp_state) ELSE csi

IdleIndex_Keep(csi) == csi

\* IDLE resets the expected index
IdleIndex(csi) == 0

IsNextPhase_OffByOne(expected_index, csi) == expected_index = csi + 2

IsNextPhase(expected_index, csi) == expected_index = csi + 1

IsRepeat_Regress(expected_index, csi) == expected_index <= csi

IsRepeat_Never(expected_index, csi) == FALSE

IsRepeat(expected_index, csi) == expected_index = csi

\* [ok |-> the line goes on to parsing, index |-> current_sequence_index afterwards]
ValidateState(ln, csi, rows) ==
    IF ~Contains(ln, "|")
    THEN [ok |-> TRUE, index |-> csi]
    ELSE LET temp_state == TempState(ln) IN
         IF Len(rows) = 0
         THEN [ok |-> TRUE, index |-> FirstSampleIndex(temp_state, csi)]
         ELSE IF temp_state = <<"IDLE">>
         THEN [ok |-> TRUE, index |-> IdleIndex(csi)]
         ELSE IF KnownPhase(temp_state)
         THEN LET expected_index == PhaseIndex(temp_state) IN
              IF IsNextPhase(expected_index, csi)
              THEN [ok |-> TRUE, index |-> expected_index]
              ELSE IF IsRepeat(expected_index, csi)
              THEN [ok |-> TRUE, index |-> csi]
              ELSE [ok |-> FALSE, index |-> csi]
         ELSE [ok |-> TRUE, index |-> csi]

(* Parsing of the wire line (moni2.py:524-540) *)

RECURSIVE ParsePairs(_, _)
ParsePairs(parsed_data, field_value_pairs) ==
    IF field_value_pairs = << >> THEN parsed_data
    ELSE LET pair == Head(field_value_pairs) IN
         IF Contains(pair, ":")
         THEN ParsePairs(DictSet(parsed_data,
                                 Strip(SplitOnce(pair, ":")[1]),
                                 Strip(SplitOnce(pair, ":")[2])),
                         Tail(field_value_pairs))
         ELSE ParsePairs(parsed_data, Tail(field_value_pairs))

ParseLine(ln) ==
    IF Contains(ln, "|")
    THEN LET state_part == SplitOnce(ln, "|")[1]
             data_part == SplitOnce(ln, "|")[2]
         IN  ParsePairs(<< << <<"STATE">>, state_part >> >>, SplitAll(data_part, ","))
    ELSE << << <<"STATE">>, SplitAll(ln, ",")[1] >> >>

\* current_state[0] as set while parsing
ParsedState(ln) ==
    IF Contains(ln, "|") THEN SplitOnce(ln, "|")[1] ELSE SplitAll(ln, ",")[1]

(* Duplicate suppression (moni2.py:542-552) *)

IsDuplicate_Inclusive(ln, ts, last) ==
    ln = last.content /\ ts - last.timestamp <= DUP_WINDOW

IsDuplicate_Short(ln, ts, last) ==
    ln = last.content /\ 2 * (ts - last.timestamp) < DUP_WINDOW

IsDuplicate(ln, ts, last) ==
    ln = last.content /\ ts - last.timestamp < DUP_WINDOW

(* Append to the log with batched eviction (moni2.py:554-568) *)

AppendRow_NoEvict(rows, ts, parsed_data) ==
    Append(rows, << ts, parsed_data >>)

AppendRow_DropNewest(rows, ts, parsed_data) ==
    LET appended == Append(rows, << ts, parsed_data >>) IN
    IF Len(appended) > MAX_DATA_POINTS
    THEN LET removed_count == Len(appended) - MAX_DATA_POINTS + EVICT_EXTRA IN
         SubSeq(appended, 1, Len(appended) - removed_count)
    ELSE appended

\* moni2.py:563-566, on the log that already holds the new row
EvictRows(appended) ==
    IF Len(appended) > MAX_DATA_POINTS
    THEN LET removed_count == Len(appended) - MAX_DATA_POINTS + EVICT_EXTRA IN
         SubSeq(appended, removed_count + 1, Len(appended))
    ELSE appended

AppendRow(rows, ts, parsed_data) ==
    EvictRows(Append(rows, << ts, parsed_data >>))

(* The body of one loop iteration after a datagram was received            *)
(* (moni2.py:486-568), for the stripped line ln and the loop's timestamp ts *)
Pipeline(ln, ts) ==
    /\ line' = ln
    /\ IF ln = << >>
       THEN /\ verdict' = "empty"
            /\ UNCHANGED << data_rows, current_sequence_index, last_received_data,
                            current_state, current_index >>
       ELSE LET v == ValidateState(ln, current_sequence_index, data_rows) IN
            /\ current_index' = IF Contains(ln, "|") THEN current_sequence_index
                                                      ELSE current_index
            /\ current_sequence_index' = v.index
            /\ IF ~v.ok
               THEN /\ verdict' = "order_reject"
                    /\ UNCHANGED << data_rows, last_received_data, current_state >>
               ELSE /\ current_state' = ParsedState(ln)
                    /\ IF IsDuplicate(ln, ts, last_received_data)
                       THEN /\ verdict' = "duplicate"
                            /\ UNCHANGED << data_rows, last_received_data >>
                       ELSE /\ verdict' = "appended"
                            /\ last_received_data' = [content |-> ln, timestamp |-> ts]
                            /\ data_rows' = AppendRow(data_rows, ts, ParseLine(ln))

-----------------------------------------------------------------------------
(* State of a session that has just been started: on_on has cleared the    *)
(* log, the expected index and the suppressor's memory, set the run flag   *)
(* and started the receiver thread, which stands at the top of its loop.   *)

\* nobody holds the lock, the receiver is at its loop top, the GUI is idle
InitState ==
    /\ lock = "free"
    /\ wpc = "top"
    /\ gpc = "idle"
    /\ latest_row = << >>
    /\ shown_time = 0
    /\ off_time = 0
    /\ thr = [i \in 1..MaxThreads |-> IF i = 1 THEN "top" ELSE "unborn"]
    /\ hold = [i \in 1..MaxThreads |-> << >>]
    /\ udp_thread = 1
    /\ opc = "idle"
    /\ epoch = 1
    /\ row_epoch = << >>
    /\ is_sending = FALSE
    /\ sthr = [i \in 1..MaxSendThreads |-> "unborn"]
    /\ target = [i \in 1..MaxSendThreads |-> 0]
    /\ start_time = 0
    /\ cycle_count = 0
    /\ network_errors = 0
    /\ current_state_index = 0
    /\ params = 1
    /\ snow = 0
    /\ payload = << >>
    /\ stopped = [i \in 1..MaxSendThreads |-> FALSE]
    /\ late_sends = [i \in 1..MaxSendThreads |-> 0]
    /\ reinits = 0
    /\ fail_run = 0
    /\ error_count = 0
    /\ fired = 0
    /\ late = 0
    /\ phase_payloads = << 0, 0, 0, 0 >>
    /\ cursor_active = FALSE
    /\ cursor_idx = 0
    /\ is_running = FALSE
    /\ control_thread = FALSE
    /\ run_pc = "init"
    /\ bind_failed = FALSE
    /\ tx_packet = << >>
    /\ rx_data = << >>
    /\ ref_rows = << >>
    /\ ref_index = 0
    /\ ref_last = [content |-> << >>, timestamp |-> 0]

InitExt == InitState /\ tx_data = << >>

InitLoop ==
    /\ data_rows = << >>
    /\ current_sequence_index = 0
    /\ last_received_data = [content |-> << >>, timestamp |-> 0]
    /\ current_state = <<"WAITING">>
    /\ data_on = TRUE
    /\ line = << >>
    /\ timestamp = 0
    /\ current_index = -1
    /\ verdict = "none"
    /\ rpc = "top"
    /\ now = 0
    /\ deadline = 0
    /\ busy_until = 0
    /\ sockbuf = << >>
    /\ arrivals = << >>
    /\ fed = 0

Init == InitLoop /\ InitExt

(* Lines a datagram may carry, after decode and strip *)
Lines ==
    { << s, "|", "SOC", ":", "10" >> : s \in {"IDLE", "STARTUP", "MAIN_FUELING", "SHUTDOWN", "FOO"} }
    \cup { << "STARTUP", "|", "SOC", ":", "12" >>,
           << "MAIN_FUELING", "|", "STATE", ":", "STARTUP" >>,
           << "STARTUP", ",", "SOC" >>,
           << >> }

(* Time between the timestamps of two successive iterations *)
Deltas == {0, 19, 20}

(* One iteration of the receive loop that received the line ln, its        *)
(* timestamp taken at the loop top (moni2.py:433-568)                      *)
Iterate(ln, ts) ==
    /\ data_on
    /\ Len(data_rows) < MaxRows
    /\ ts <= MaxTime
    /\ timestamp' = ts
    /\ Pipeline(ln, ts)
    /\ UNCHANGED loopVars
    /\ UNCHANGED fed
    /\ UNCHANGED extVars

Next == \E ln \in Lines, d \in Deltas : Iterate(ln, timestamp + d)

Spec == Init /\ [][Next]_vars

(* The reference pipeline: the line is decoded, then checked by the          *)
(* duplicate suppressor, which remembers every line it admits, then by the  *)
(* phase validator, then appended.  It is built of the same rules as the     *)
(* loop and keeps its own log, expected index and suppressor memory.        *)
Reference(ln, ts) ==
    IF ln = << >>
    THEN [rows |-> ref_rows, index |-> ref_index, last |-> ref_last]
    ELSE IF IsDuplicate(ln, ts, ref_last)
    THEN [rows |-> ref_rows, index |-> ref_index, last |-> ref_last]
    ELSE LET v == ValidateState(ln, ref_index, ref_rows) IN
         [rows  |-> IF v.ok THEN AppendRow(ref_rows, ts, ParseLine(ln)) ELSE ref_rows,
          index |-> v.index,
          last  |-> [content |-> ln, timestamp |-> ts]]

(* One iteration of the receive loop on the line ln (moni2.py:433-568),     *)
(* and one step of the reference pipeline on the same line and time         *)
IterateBoth(ln, ts) ==
    /\ data_on
    /\ Len(data_rows) < MaxRows
    /\ Len(ref_rows) < MaxRows
    /\ ts <= MaxTime
    /\ timestamp' = ts
    /\ Pipeline(ln, ts)
    /\ ref_rows' = Reference(ln, ts).rows
    /\ ref_index' = Reference(ln, ts).index
    /\ ref_last' = Reference(ln, ts).last
    /\ UNCHANGED << loopVars, fed, guiVars, off_time, sessVars, senderVars,
                    error_count, fired, late, phase_payloads, cursor_active, cursor_idx, is_running, control_thread, run_pc, bind_failed,
                    tx_data, tx_packet, rx_data >>

NextCompare == \E ln \in Lines, d \in Deltas : IterateBoth(ln, timestamp + d)

SpecCompare == Init /\ [][NextCompare]_vars

-----------------------------------------------------------------------------
(* The receive loop in time (moni2.py:428-488): the thread takes its        *)
(* timestamp at the loop top, then blocks in recvfrom for at most the       *)
(* timeout.  Datagrams arrive from the network at any time.  A received     *)
(* line takes up to MaxLag ticks of processing before the loop is back at   *)
(* its top; a timeout takes none.                                           *)

WireLine == << "IDLE", "|", "SOC", ":", "10" >>

\* while True: if not data_on[0]: sleep; continue / timestamp = time.time(); recvfrom
LoopTop ==
    /\ rpc = "top"
    /\ now >= busy_until
    /\ IF data_on
       THEN /\ timestamp' = now
            /\ deadline' = now + RECV_TIMEOUT
            /\ rpc' = "recv"
       ELSE /\ deadline' = now + OFF_SLEEP
            /\ rpc' = "sleep"
            /\ UNCHANGED timestamp
    /\ UNCHANGED << pipeVars, data_on, now, busy_until, sockbuf, arrivals, fed, extVars >>

\* recvfrom returns a datagram; the line is decoded, stripped and run through
\* the loop body with the timestamp of the loop top
RecvPacket ==
    /\ rpc = "recv"
    /\ sockbuf # << >>
    /\ sockbuf' = Tail(sockbuf)
    /\ Pipeline(Strip(Head(sockbuf)), timestamp)
    /\ \E d \in 0..MaxLag : busy_until' = now + d
    /\ IF Strip(Head(sockbuf)) = << >>
       THEN rpc' = "sleep" /\ deadline' = now + OFF_SLEEP
       ELSE rpc' = "top" /\ UNCHANGED deadline
    /\ UNCHANGED << data_on, timestamp, now, arrivals, fed, extVars >>

\* recvfrom raises socket.timeout: leave the loop when the flag is off
RecvTimeout ==
    /\ rpc = "recv"
    /\ sockbuf = << >>
    /\ now >= deadline
    /\ rpc' = IF data_on THEN "top" ELSE "done"
    /\ busy_until' = now
    /\ UNCHANGED << pipeVars, data_on, timestamp, now, deadline, sockbuf, arrivals, fed, extVars >>

\* the network delivers one more datagram carrying the same wire line
Arrive ==
    /\ Len(arrivals) < 2
    /\ IF arrivals = << >> THEN now <= MaxFirstArrival
                           ELSE now - arrivals[1] <= MaxGap
    /\ sockbuf' = Append(sockbuf, WireLine)
    /\ arrivals' = Append(arrivals, now)
    /\ UNCHANGED << pipeVars, data_on, timestamp, rpc, now, deadline, busy_until, fed, extVars >>

\* time passes; a recvfrom with a datagram queued returns at once, and a
\* pending timeout or the end of the loop body is not overrun
Tick ==
    /\ now < MaxClock
    /\ rpc = "recv" => (sockbuf = << >> /\ now < deadline)
    /\ rpc = "top" => now < busy_until
    /\ now' = now + 1
    /\ UNCHANGED << pipeVars, data_on, timestamp, rpc, deadline, busy_until,
                    sockbuf, arrivals, fed, extVars >>

NextRecv == LoopTop \/ RecvPacket \/ RecvTimeout \/ Arrive \/ Tick

SpecRecv == Init /\ [][NextRecv]_vars

-----------------------------------------------------------------------------
(* The concrete scenario: five lines fed to a fresh session, the second    *)
(* 120 ms after the first, the others at any of the ScenarioGaps.          *)

Scenario ==
    << << "IDLE", "|", "SOC", ":", "10" >>,
       << "IDLE", "|", "SOC", ":", "10" >>,
       << "STARTUP", "|", "SOC", ":", "10" >>,
       << "MAIN_FUELING", "|", "SOC", ":", "12" >>,
       << "IDLE", "|", "SOC", ":", "95" >> >>

ScenarioGaps == {0, 5, 12, 20, 100}

GapBefore(k) == IF k = 2 THEN {12} ELSE ScenarioGaps

\* one iteration of the receive loop on the next line of the scenario
Feed ==
    /\ data_on
    /\ fed < Len(Scenario)
    /\ \E d \in GapBefore(fed + 1) :
          /\ timestamp' = timestamp + d
          /\ Pipeline(Scenario[fed + 1], timestamp + d)
    /\ fed' = fed + 1
    /\ UNCHANGED loopVars
    /\ UNCHANGED extVars

NextScenario == Feed

SpecScenario == Init /\ [][NextScenario]_vars

-----------------------------------------------------------------------------
(* A long session: one line per second, the phases following each other in *)
(* order, each line appended.  The run starts from the empty log of a new  *)
(* session or from the log such a session holds after LogPrefill lines.    *)

LogLine(k) ==
    << expected_state_sequence[((k - 1) % 4) + 1][1], "|", "SOC", ":", "10" >>

LogTime(k) == 100 * k

\* the parsed fields of the four lines of a cycle, indexed by (k - 1) % 4
LogParsed == [p \in 0..3 |-> ParseLine(LogLine(p + 1))]

LogRow(k) == << LogTime(k), LogParsed[(k - 1) % 4] >>

LogPrefill == MAX_DATA_POINTS - 2

LogRunLength == MAX_DATA_POINTS + 1000

\* the state of the session after its first n lines (n >= 2, no eviction yet)
LogStateAfter(n) ==
    /\ data_rows = [i \in 1..n |-> LogRow(i)]
    /\ current_sequence_index = (n - 1) % 4
    /\ last_received_data = [content |-> LogLine(n), timestamp |-> LogTime(n)]
    /\ current_state = TempState(LogLine(n))
    /\ data_on = TRUE
    /\ line = LogLine(n)
    /\ timestamp = LogTime(n)
    /\ current_index = (n - 2) % 4
    /\ verdict = "appended"
    /\ rpc = "top"
    /\ now = 0
    /\ deadline = 0
    /\ busy_until = 0
    /\ sockbuf = << >>
    /\ arrivals = << >>
    /\ fed = n
    /\ InitExt

InitLog == Init \/ LogStateAfter(LogPrefill)

\* one iteration of the receive loop on the next line of the session
LogAppend ==
    /\ data_on
    /\ fed < LogRunLength
    /\ timestamp' = LogTime(fed + 1)
    /\ Pipeline(LogLine(fed + 1), LogTime(fed + 1))
    /\ fed' = fed + 1
    /\ UNCHANGED loopVars
    /\ UNCHANGED extVars

NextLog == LogAppend

SpecLog == InitLog /\ [][NextLog]_vars

-----------------------------------------------------------------------------
(* The receiver thread and the GUI thread around the lock.  The receiver   *)
(* ingests the lines of the long session; its loop body is split at the    *)
(* points where the other thread can run: taking the lock, the append, the *)
(* eviction, leaving the with block.  The GUI thread runs update_all: the  *)
(* current-values panel, then the state panel (live mode, no cursor).      *)

LockRunLength == MAX_DATA_POINTS + 2

\* the session a few lines before the log is full
InitLock == LogStateAfter(LogPrefill)

\* moni2.py:434-552: a loop iteration up to the with block
RcvBody ==
    /\ wpc = "top"
    /\ data_on
    /\ fed < LockRunLength
    /\ fed' = fed + 1
    /\ timestamp' = LogTime(fed + 1)
    /\ LET ln == LogLine(fed + 1)
           ts == LogTime(fed + 1)
           v  == ValidateState(ln, current_sequence_index, data_rows)
       IN  IF v.ok /\ ~IsDuplicate(ln, ts, last_received_data)
           THEN /\ line' = ln
                /\ current_index' = current_sequence_index
                /\ current_sequence_index' = v.index
                /\ current_state' = ParsedState(ln)
                /\ last_received_data' = [content |-> ln, timestamp |-> ts]
                /\ wpc' = "lock"
                /\ UNCHANGED << data_rows, verdict >>
           ELSE /\ Pipeline(ln, ts)
                /\ UNCHANGED wpc
    /\ UNCHANGED << loopVars, lock, gpc, latest_row, shown_time, restVars >>

\* moni2.py:554: with lock
RcvLock ==
    /\ wpc = "lock"
    /\ lock = "free"
    /\ lock' = "receiver"
    /\ wpc' = "append"
    /\ UNCHANGED << pipeVars, loopVars, timestamp, fed, gpc, latest_row, shown_time, restVars >>

\* moni2.py:559: data_rows.append([timestamp, parsed_data])
RcvAppend ==
    /\ wpc = "append"
    /\ data_rows' = Append(data_rows, << timestamp, ParseLine(line) >>)
    /\ verdict' = "appended"
    /\ wpc' = "evict"
    /\ UNCHANGED << current_sequence_index, last_received_data, current_state, line,
                    current_index, loopVars, timestamp, fed, lock, gpc, latest_row,
                    shown_time, restVars >>

\* moni2.py:563-566: the eviction
RcvEvict ==
    /\ wpc = "evict"
    /\ data_rows' = EvictRows(data_rows)
    /\ wpc' = "unlock"
    /\ UNCHANGED << current_sequence_index, last_received_data, current_state, line,
                    current_index, verdict, loopVars, timestamp, fed, lock, gpc,
                    latest_row, shown_time, restVars >>

\* moni2.py:568-592: the end of the with block
RcvUnlock ==
    /\ wpc = "unlock"
    /\ lock' = "free"
    /\ wpc' = "top"
    /\ UNCHANGED << pipeVars, loopVars, timestamp, fed, gpc, latest_row, shown_time, restVars >>

\* moni2.py:1490-1495: update_all calls update_current_values
GuiUpdateAll ==
    /\ gpc = "idle"
    /\ gpc' = "ucv_1044"
    /\ UNCHANGED << pipeVars, loopVars, timestamp, fed, lock, wpc, latest_row, shown_time, restVars >>

\* moni2.py:1044: if not data_rows: return
Ucv1044 ==
    /\ gpc = "ucv_1044"
    /\ gpc' = IF data_rows = << >> THEN "usp_844" ELSE "ucv_1050"
    /\ UNCHANGED << pipeVars, loopVars, timestamp, fed, lock, wpc, latest_row, shown_time, restVars >>

\* moni2.py:1050: latest_row = data_rows[-1]
Ucv1050 ==
    /\ gpc = "ucv_1050"
    /\ data_rows # << >>
    /\ latest_row' = data_rows[Len(data_rows)]
    /\ gpc' = "ucv_1063"
    /\ UNCHANGED << pipeVars, loopVars, timestamp, fed, lock, wpc, shown_time, restVars >>

\* moni2.py:1063: current_time = latest_row[0] - (data_rows[0][0] if data_rows else 0)
Ucv1063 ==
    /\ gpc = "ucv_1063"
    /\ shown_time' = latest_row[1] - (IF data_rows # << >> THEN data_rows[1][1] ELSE 0)
    /\ gpc' = "usp_844"
    /\ UNCHANGED << pipeVars, loopVars, timestamp, fed, lock, wpc, latest_row, restVars >>

\* moni2.py:844: update_state_panel takes the lock
Usp844 ==
    /\ gpc = "usp_844"
    /\ lock = "free"
    /\ lock' = "gui"
    /\ gpc' = "usp_855"
    /\ UNCHANGED << pipeVars, loopVars, timestamp, fed, wpc, latest_row, shown_time, restVars >>

\* moni2.py:845-858: the block under the lock, live mode: row = data_rows[-1]
Usp855 ==
    /\ gpc = "usp_855"
    /\ latest_row' = IF data_rows # << >> THEN data_rows[Len(data_rows)] ELSE latest_row
    /\ lock' = "free"
    /\ gpc' = "usp_885"
    /\ UNCHANGED << pipeVars, loopVars, timestamp, fed, wpc, shown_time, restVars >>

\* moni2.py:885-886: elif not cursor_active[0] and data_rows: latest_row = data_rows[-1]
Usp885 ==
    /\ gpc = "usp_885"
    /\ latest_row' = IF data_rows # << >> THEN data_rows[Len(data_rows)] ELSE latest_row
    /\ gpc' = "idle"
    /\ UNCHANGED << pipeVars, loopVars, timestamp, fed, lock, wpc, shown_time, restVars >>

NextLock ==
    \/ RcvBody \/ RcvLock \/ RcvAppend \/ RcvEvict \/ RcvUnlock
    \/ GuiUpdateAll \/ Ucv1044 \/ Ucv1050 \/ Ucv1063 \/ Usp844 \/ Usp855 \/ Usp885

SpecLock == InitLock /\ [][NextLock]_vars

-----------------------------------------------------------------------------
(* The receive loop in time while the operator presses OFF.  on_off clears *)
(* the run flag at any moment of the loop; the sender goes on sending      *)
(* until on_off has waited for the thread (moni2.py:1874-1884).            *)

\* on_off: the flag is cleared, the panel state and the expected index reset
OffPressed ==
    /\ data_on
    /\ now <= MaxOffTime
    /\ data_on' = FALSE
    /\ current_state' = <<"WAITING">>
    /\ current_sequence_index' = 0
    /\ off_time' = now
    /\ UNCHANGED << data_rows, last_received_data, line, current_index, verdict,
                    timestamp, rpc, now, deadline, busy_until, sockbuf, arrivals,
                    fed, guiVars, sessVars, senderVars, auxVars >>

\* time.sleep(0.1) of the loop top returns; continue
SleepEnd ==
    /\ rpc = "sleep"
    /\ now >= deadline
    /\ rpc' = "top"
    /\ busy_until' = now
    /\ UNCHANGED << pipeVars, data_on, timestamp, now, deadline, sockbuf, arrivals,
                    fed, extVars >>

\* time passes, and a sleep that is over is not overrun either
TickOff ==
    /\ rpc = "sleep" => now < deadline
    /\ Tick

\* moni2.py:474-480: recvfrom raises socket.error; the error is counted and past
\* the limit the loop is left.  The statistics code (444-448) sets the counter
\* to 0 on the first datagram received 10 s after the thread started, which is
\* later than the MaxClock ticks of a run.
RecvError ==
    /\ rpc = "recv"
    /\ error_count' = error_count + 1
    /\ rpc' = IF error_count + 1 > RECV_ERROR_LIMIT THEN "done" ELSE "top"
    /\ busy_until' = now
    /\ UNCHANGED << pipeVars, data_on, timestamp, now, deadline, sockbuf, arrivals, fed,
                    guiVars, off_time, sessVars, senderVars,
                    fired, late, phase_payloads, cursor_active, cursor_idx, is_running, control_thread, run_pc, bind_failed,
                    tx_data, tx_packet, rx_data, ref_rows, ref_index, ref_last >>

\* the receive loop on a socket whose recvfrom may fail
NextRecvErrors ==
    \/ LoopTop
    \/ RecvPacket
    \/ RecvTimeout
    \/ now < MaxRecvErrorClock /\ Arrive
    \/ now < MaxRecvErrorClock /\ Tick
    \/ RecvError

SpecRecvErrors == Init /\ [][NextRecvErrors]_vars

NextOff == LoopTop \/ RecvPacket \/ RecvTimeout \/ Arrive \/ TickOff \/ OffPressed \/ SleepEnd

SpecOff == Init /\ [][NextOff]_vars

-----------------------------------------------------------------------------
(* Sessions: the GUI thread runs on_on and on_off statement by statement   *)
(* while the receiver threads run their loops.  Every on_on starts a new   *)
(* receiver thread; a thread of an earlier session may still be alive.     *)
(* The model is untimed: a join gives up only on a thread that cannot      *)
(* terminate while the flag stays as it is.                                *)

Threads == 1..MaxThreads

\* lines the sender's datagrams carry
SessionLines == { WireLine, << "IDLE", "|", "SOC", ":", "12" >> }

Alive(i) == thr[i] \notin {"unborn", "done"}

\* state the model's other specifications use, untouched by the session model
sessFrame == << rpc, now, deadline, busy_until, sockbuf, arrivals, fed, guiVars, off_time,
               senderVars, auxVars >>

\* moni2.py:429-434: the loop top of thread i
ThreadTop(i) ==
    /\ thr[i] = "top"
    /\ thr' = [thr EXCEPT ![i] = IF data_on THEN "recv" ELSE "sleep"]
    /\ UNCHANGED << pipeVars, data_on, timestamp, sessFrame, hold, udp_thread, opc,
                    epoch, row_epoch >>

\* moni2.py:430-431: time.sleep(0.1); continue
ThreadSleepEnd(i) ==
    /\ thr[i] = "sleep"
    /\ thr' = [thr EXCEPT ![i] = "top"]
    /\ UNCHANGED << pipeVars, data_on, timestamp, sessFrame, hold, udp_thread, opc,
                    epoch, row_epoch >>

\* moni2.py:438-440: recvfrom returns a datagram
ThreadReceive(i, ln) ==
    /\ thr[i] = "recv"
    /\ hold' = [hold EXCEPT ![i] = << ln, epoch >>]
    /\ thr' = [thr EXCEPT ![i] = "held"]
    /\ UNCHANGED << pipeVars, data_on, timestamp, sessFrame, udp_thread, opc, epoch,
                    row_epoch >>

\* moni2.py:454-472: recvfrom times out
ThreadTimeout(i) ==
    /\ thr[i] = "recv"
    /\ thr' = [thr EXCEPT ![i] = IF data_on THEN "top" ELSE "done"]
    /\ UNCHANGED << pipeVars, data_on, timestamp, sessFrame, hold, udp_thread, opc,
                    epoch, row_epoch >>

\* moni2.py:486-592: the loop body on the datagram in hand
ThreadBody(i) ==
    /\ thr[i] = "held"
    /\ Len(data_rows) < MaxRows
    /\ timestamp' = now
    /\ Pipeline(Strip(hold[i][1]), now)
    /\ row_epoch' = IF verdict' = "appended" THEN Append(row_epoch, hold[i][2])
                                             ELSE row_epoch
    /\ hold' = [hold EXCEPT ![i] = << >>]
    /\ thr' = [thr EXCEPT ![i] = "top"]
    /\ UNCHANGED << data_on, sessFrame, udp_thread, opc, epoch >>

\* moni2.py:1619-1626: ON is pressed; the log is cleared under the lock
OnClear ==
    /\ opc = "idle"
    /\ \E i \in Threads : thr[i] = "unborn"
    /\ epoch' = epoch + 1
    /\ data_rows' = << >>
    /\ row_epoch' = << >>
    /\ current_state' = <<"WAITING">>
    /\ opc' = "on_1632"
    /\ UNCHANGED << current_sequence_index, last_received_data, line, current_index,
                    verdict, data_on, timestamp, sessFrame, thr, hold, udp_thread >>

\* moni2.py:1632-1634: the suppressor's memory is reset
OnResetMemory ==
    /\ opc = "on_1632"
    /\ last_received_data' = [content |-> << >>, timestamp |-> 0]
    /\ opc' = "on_1637"
    /\ UNCHANGED << data_rows, current_sequence_index, current_state, line,
                    current_index, verdict, data_on, timestamp, sessFrame, thr, hold,
                    udp_thread, epoch, row_epoch >>

\* moni2.py:1637: current_sequence_index[0] = 0
OnResetIndex ==
    /\ opc = "on_1637"
    /\ current_sequence_index' = 0
    /\ opc' = "on_1641"
    /\ UNCHANGED << data_rows, last_received_data, current_state, line, current_index,
                    verdict, data_on, timestamp, sessFrame, thr, hold, udp_thread,
                    epoch, row_epoch >>

\* moni2.py:1641-1643: the log is cleared again; 1646-1657 sleeps follow
OnClearAgain ==
    /\ opc = "on_1641"
    /\ data_rows' = << >>
    /\ row_epoch' = << >>
    /\ opc' = "on_1665"
    /\ UNCHANGED << current_sequence_index, last_received_data, current_state, line,
                    current_index, verdict, data_on, timestamp, sessFrame, thr, hold,
                    udp_thread, epoch >>

\* moni2.py:1665-1668: data_on[0] = True; current_sequence_index[0] = 0
OnSetFlag ==
    /\ opc = "on_1665"
    /\ data_on' = TRUE
    /\ current_sequence_index' = 0
    /\ opc' = "on_1676"
    /\ UNCHANGED << data_rows, last_received_data, current_state, line, current_index,
                    verdict, timestamp, sessFrame, thr, hold, udp_thread, epoch,
                    row_epoch >>

\* moni2.py:1676-1681: the thread of the previous session, if alive, is asked to stop
OnStopOld ==
    /\ opc = "on_1676"
    /\ IF udp_thread # 0 /\ Alive(udp_thread)
       THEN data_on' = FALSE /\ opc' = "on_1682" /\ UNCHANGED udp_thread
       ELSE udp_thread' = 0 /\ opc' = "on_1687" /\ UNCHANGED data_on
    /\ UNCHANGED << pipeVars, timestamp, sessFrame, thr, hold, epoch, row_epoch >>

\* moni2.py:1682-1684: join(timeout=2.0) returns because the thread is done, or
\* because it sleeps at its loop top; the flag is restored
OnJoin ==
    /\ opc = "on_1682"
    /\ thr[udp_thread] \in {"done", "sleep"}
    /\ data_on' = TRUE
    /\ udp_thread' = 0
    /\ opc' = "on_1687"
    /\ UNCHANGED << pipeVars, timestamp, sessFrame, thr, hold, epoch, row_epoch >>

\* moni2.py:1687-1688: a new receiver thread is started
OnStartThread ==
    /\ opc = "on_1687"
    /\ LET new == CHOOSE i \in Threads : thr[i] = "unborn" /\ \A j \in Threads : thr[j] = "unborn" => i <= j
       IN  /\ thr' = [thr EXCEPT ![new] = "top"]
           /\ udp_thread' = new
    /\ opc' = "idle"
    /\ UNCHANGED << pipeVars, data_on, timestamp, sessFrame, hold, epoch, row_epoch >>

\* moni2.py:1817-1827: OFF is pressed
OffClearFlag ==
    /\ opc = "idle"
    /\ data_on
    /\ data_on' = FALSE
    /\ current_state' = <<"WAITING">>
    /\ current_sequence_index' = 0
    /\ opc' = "off_1880"
    /\ UNCHANGED << data_rows, last_received_data, line, current_index, verdict,
                    timestamp, sessFrame, thr, hold, udp_thread, epoch, row_epoch >>

\* moni2.py:1880: if udp_thread is not None and udp_thread.is_alive()
OffCheckThread ==
    /\ opc = "off_1880"
    /\ opc' = IF udp_thread # 0 /\ Alive(udp_thread) THEN "off_1882" ELSE "idle"
    /\ UNCHANGED << pipeVars, data_on, timestamp, sessFrame, thr, hold, udp_thread,
                    epoch, row_epoch >>

\* moni2.py:1882-1885: join(timeout=3.0) returns because the thread is done, or
\* because it sleeps at its loop top; the handle is dropped
OffJoin ==
    /\ opc = "off_1882"
    /\ thr[udp_thread] \in {"done", "sleep"}
    /\ udp_thread' = 0
    /\ opc' = "idle"
    /\ UNCHANGED << pipeVars, data_on, timestamp, sessFrame, thr, hold, epoch, row_epoch >>

NextSession ==
    \/ \E i \in Threads : ThreadTop(i)
    \/ \E i \in Threads : ThreadSleepEnd(i)
    \/ \E i \in Threads, ln \in SessionLines : ThreadReceive(i, ln)
    \/ \E i \in Threads : ThreadTimeout(i)
    \/ \E i \in Threads : ThreadBody(i)
    \/ OnClear \/ OnResetMemory \/ OnResetIndex \/ OnClearAgain \/ OnSetFlag
    \/ OnStopOld \/ OnJoin \/ OnStartThread
    \/ OffClearFlag \/ OffCheckThread \/ OffJoin

SpecSession == Init /\ [][NextSession]_vars

-----------------------------------------------------------------------------
(* The start of the two programs when the transport cannot be set up *)

\* moni2.py:1687-1688, 380-400: a new receiver thread is started and its
\* sock.bind raises: the exception ends the thread before its loop
OnStartThreadBindFails ==
    /\ opc = "on_1687"
    /\ LET new == CHOOSE i \in Threads : thr[i] = "unborn" /\ \A j \in Threads : thr[j] = "unborn" => i <= j
       IN  /\ thr' = [thr EXCEPT ![new] = "done"]
           /\ udp_thread' = new
    /\ opc' = "idle"
    /\ bind_failed' = TRUE
    /\ UNCHANGED << pipeVars, data_on, timestamp, hold, epoch, row_epoch,
                    rpc, now, deadline, busy_until, sockbuf, arrivals, fed, guiVars, off_time,
                    senderVars, error_count, fired, late, phase_payloads, cursor_active, cursor_idx, is_running, control_thread, run_pc,
                    tx_data, tx_packet, rx_data, ref_rows, ref_index, ref_last >>

\* disp2.py:507-515: run() sets up the sockets; setup_sockets returns ok
Run(ok) ==
    /\ run_pc = "init"
    /\ IF ok
       THEN /\ is_running' = TRUE
            /\ control_thread' = TRUE
            /\ run_pc' = "main"
       ELSE /\ run_pc' = "returned"
            /\ UNCHANGED << is_running, control_thread >>
    /\ UNCHANGED << pipeVars, loopVars, timestamp, fed, guiVars, off_time, sessVars, senderVars,
                    error_count, fired, late, phase_payloads, cursor_active, cursor_idx, bind_failed,
                    tx_data, tx_packet, rx_data, ref_rows, ref_index, ref_last >>

NextStartup ==
    \/ NextSession
    \/ OnStartThreadBindFails
    \/ \E ok \in BOOLEAN : Run(ok)

SpecStartup == Init /\ [][NextStartup]_vars

-----------------------------------------------------------------------------
(* The sender (disp2.py): control_listener handles the control payloads,   *)
(* each ON starts a thread running send_data_loop.  The threads share the  *)
(* sender object: start_time, cycle_count, the phase index, the counters.  *)
(* A control payload is a sequence of characters.  The sender's clock      *)
(* counts half seconds.                                                    *)

SEND_INTERVAL == 2
ERROR_LIMIT == 10

\* disp2.py:127-132, in half seconds, by phase index
state_durations == << 10, 10, 240, 40 >>

SendThreads == 1..MaxSendThreads

\* c.upper() for the characters of the control payloads
UpperChar(c) ==
    CASE c = "o" -> "O"
      [] c = "n" -> "N"
      [] c = "f" -> "F"
      [] OTHER -> c

\* s.upper()
Upper(s) == [k \in 1..Len(s) |-> UpperChar(s[k])]

Normalize_NoUpper(data) == Strip(data)

\* disp2.py:431: command = data.decode().strip().upper()
Normalize(data) == Upper(Strip(data))

OnStartsSession_Always(sending) == TRUE

\* disp2.py:437: if not self.is_sending
OnStartsSession(sending) == ~sending

\* disp2.py:454: if self.is_sending
OffStopsSession(sending) == sending

\* payloads a control datagram may carry
Payloads ==
    { << "O", "N" >>, << " ", "o", "n", " " >>, << "O", "F", "F" >>, << "o", "F", "f", " " >>,
      << "O", "N", "N" >>, << "O", " ", "N" >> }

\* thread i is inside the while loop of send_data_loop
InLoop(i) == sthr[i] \in {"check", "wait", "send"}

\* state of the receiver, untouched by the sender
senderFrame == << pipeVars, loopVars, timestamp, fed, guiVars, off_time, sessVars, auxVars >>

\* disp2.py:430-459: control_listener receives one payload and handles it
Control(data) ==
    /\ payload' = data
    /\ LET command == Normalize(data) IN
       IF command = << "O", "N" >> /\ OnStartsSession(is_sending)
       THEN /\ \E i \in SendThreads : sthr[i] = "unborn"
            /\ params' = params + 1
            /\ is_sending' = TRUE
            /\ LET new == CHOOSE i \in SendThreads :
                              sthr[i] = "unborn" /\ \A j \in SendThreads : sthr[j] = "unborn" => i <= j
               IN  sthr' = [sthr EXCEPT ![new] = "start"]
            /\ UNCHANGED stopped
       ELSE IF command = << "O", "F", "F" >> /\ OffStopsSession(is_sending)
       THEN /\ is_sending' = FALSE
            /\ stopped' = [i \in SendThreads |-> stopped[i] \/ InLoop(i)]
            /\ UNCHANGED << params, sthr >>
       ELSE UNCHANGED << is_sending, params, sthr, stopped >>
    /\ UNCHANGED << target, start_time, cycle_count, network_errors, current_state_index,
                    snow, late_sends, reinits, fail_run, senderFrame >>

\* disp2.py:336-337: send_data_loop sets the schedule's origin
SendStart(i) ==
    /\ sthr[i] = "start"
    /\ start_time' = snow
    /\ cycle_count' = 0
    /\ sthr' = [sthr EXCEPT ![i] = "check"]
    /\ UNCHANGED << is_sending, target, network_errors, current_state_index, params, snow,
                    payload, stopped, late_sends, reinits, fail_run, senderFrame >>

\* disp2.py:344-347: while self.is_sending: target_send_time = ...
SendCheck(i) ==
    /\ sthr[i] = "check"
    /\ IF is_sending
       THEN /\ target' = [target EXCEPT ![i] = start_time + cycle_count * SEND_INTERVAL]
            /\ sthr' = [sthr EXCEPT ![i] = "wait"]
       ELSE /\ sthr' = [sthr EXCEPT ![i] = "done"]
            /\ UNCHANGED target
    /\ UNCHANGED << is_sending, start_time, cycle_count, network_errors,
                    current_state_index, params, snow, payload, stopped, late_sends,
                    reinits, fail_run, senderFrame >>

\* disp2.py:350: precision_sleep(target_send_time) returns at the target time,
\* at once when that time has passed
SendWait(i) ==
    /\ sthr[i] = "wait"
    /\ \A j \in SendThreads : (sthr[j] = "wait" /\ target[i] > snow) => target[j] >= target[i]
    /\ snow' = IF target[i] > snow THEN target[i] ELSE snow
    /\ sthr' = [sthr EXCEPT ![i] = "send"]
    /\ UNCHANGED << is_sending, target, start_time, cycle_count, network_errors,
                    current_state_index, params, payload, stopped, late_sends,
                    reinits, fail_run, senderFrame >>

\* disp2.py:381: time of the schedule taken by the phases before index
RECURSIVE StatesCompletedTime(_)
StatesCompletedTime(index) ==
    IF index = 0 THEN 0 ELSE state_durations[index] + StatesCompletedTime(index - 1)

\* a schedule that is reset at every change of phase
ResetsSchedule_Always(index) == TRUE

\* disp2.py:392: if self.current_state_index == 0, after the index was advanced
ResetsSchedule(index) == index = 0

\* disp2.py:353-409: the payload is sent, the phase advanced, the cycle counted
SendAndAdvance(i) ==
    /\ sthr[i] = "send"
    /\ late_sends' = [late_sends EXCEPT ![i] = IF stopped[i] /\ @ < 2 THEN @ + 1 ELSE @]
    /\ LET current_state_elapsed == (snow - start_time) - StatesCompletedTime(current_state_index)
           advance == current_state_elapsed >= state_durations[current_state_index + 1]
           next_index == (current_state_index + 1) % 4
       IN  IF advance
           THEN /\ current_state_index' = next_index
                /\ IF ResetsSchedule(next_index)
                   THEN start_time' = snow /\ cycle_count' = 0 + 1
                   ELSE UNCHANGED start_time /\ cycle_count' = cycle_count + 1
           ELSE /\ UNCHANGED << current_state_index, start_time >>
                /\ cycle_count' = cycle_count + 1
    /\ sthr' = [sthr EXCEPT ![i] = "check"]
    /\ fail_run' = 0
    /\ UNCHANGED << is_sending, target, network_errors, params, snow, payload, stopped,
                    reinits >>

\* the cycle of a sender whose datagrams the model does not follow further
SendOk(i) == SendAndAdvance(i) /\ UNCHANGED senderFrame

\* a handler of socket.error that gives up past the limit, as the receiver's does
SendFail_Breaks(i) ==
    /\ sthr[i] = "send"
    /\ network_errors' = network_errors + 1
    /\ fail_run' = IF fail_run <= ERROR_LIMIT THEN fail_run + 1 ELSE fail_run
    /\ sthr' = [sthr EXCEPT ![i] = IF network_errors + 1 > ERROR_LIMIT THEN "done" ELSE "check"]
    /\ UNCHANGED << is_sending, target, start_time, cycle_count, current_state_index,
                    params, snow, payload, stopped, late_sends, reinits, senderFrame >>

\* disp2.py:411-418: sendto raises socket.error; past the limit setup_sockets is
\* called, which catches its own exceptions, and the counter is set to 0
SendFail(i) ==
    /\ sthr[i] = "send"
    /\ IF network_errors + 1 > ERROR_LIMIT
       THEN network_errors' = 0 /\ reinits' = reinits + 1
       ELSE network_errors' = network_errors + 1 /\ UNCHANGED reinits
    /\ fail_run' = IF fail_run <= ERROR_LIMIT THEN fail_run + 1 ELSE fail_run
    /\ sthr' = [sthr EXCEPT ![i] = "check"]
    /\ UNCHANGED << is_sending, target, start_time, cycle_count, current_state_index,
                    params, snow, payload, stopped, late_sends, senderFrame >>

\* half a second passes while every send thread sleeps or none runs
SenderTick ==
    /\ \A j \in SendThreads : sthr[j] \in {"unborn", "done"}
                              \/ (sthr[j] = "wait" /\ target[j] >= snow + 1)
    /\ snow' = snow + 1
    /\ UNCHANGED << is_sending, sthr, target, start_time, cycle_count, network_errors,
                    current_state_index, params, payload, stopped, late_sends,
                    reinits, fail_run, senderFrame >>

\* control payloads and send threads on a network without send errors
NextSender ==
    \/ \E data \in Payloads : Control(data)
    \/ \E i \in SendThreads : SendStart(i)
    \/ \E i \in SendThreads : SendCheck(i)
    \/ \E i \in SendThreads : target[i] <= MaxSenderClock /\ SendWait(i)
    \/ \E i \in SendThreads : cycle_count < MaxCycles /\ SendOk(i)
    \/ snow < MaxSenderClock /\ SenderTick

SpecSender == Init /\ [][NextSender]_vars

\* disp2.py:356-367: the payload of a cycle carries the phase that
\* current_state_index names when the cycle wakes up; counts holds the payloads
\* of each phase since the phase sequence last began
CountPayload(counts, index) ==
    IF index = 0 /\ counts[4] > 0
    THEN << 1, 0, 0, 0 >>
    ELSE [counts EXCEPT ![index + 1] = @ + 1]

\* disp2.py:350-354: precision_sleep returns late by d half seconds after the
\* target time (or after now, when the target has passed); actual_send_time and
\* timing_error are taken
SendWaitLate(i, d) ==
    /\ sthr[i] = "wait"
    /\ \A j \in SendThreads : (sthr[j] = "wait" /\ target[i] > snow) => target[j] >= target[i]
    /\ snow' = (IF target[i] > snow THEN target[i] ELSE snow) + d
    /\ late' = snow' - target[i]
    /\ fired' = fired + 1
    /\ phase_payloads' = CountPayload(phase_payloads, current_state_index)
    /\ sthr' = [sthr EXCEPT ![i] = "send"]
    /\ UNCHANGED << is_sending, target, start_time, cycle_count, network_errors,
                    current_state_index, params, payload, stopped, late_sends,
                    reinits, fail_run,
                    pipeVars, loopVars, timestamp, fed, guiVars, off_time, sessVars,
                    error_count, cursor_active, cursor_idx, is_running, control_thread, run_pc, bind_failed,
                    tx_data, tx_packet, rx_data, ref_rows, ref_index, ref_last >>

\* one session, started at time 0 and never stopped, on a network without send
\* errors; every wake-up may be late
NextSchedule ==
    \/ Control(<< "O", "N" >>)
    \/ \E i \in SendThreads : SendStart(i)
    \/ \E i \in SendThreads : SendCheck(i)
    \/ \E i \in SendThreads, d \in 0..MaxLateness : fired < MaxFired /\ SendWaitLate(i, d)
    \/ \E i \in SendThreads : SendOk(i)

SpecSchedule == Init /\ [][NextSchedule]_vars

\* disp2.py:420-422: the try block of the cycle raises an exception that is not
\* a socket.error; the handler leaves the loop and is_sending stays as it is
SendBreak(i) ==
    /\ sthr[i] = "send"
    /\ sthr' = [sthr EXCEPT ![i] = "done"]
    /\ UNCHANGED << is_sending, target, start_time, cycle_count, network_errors,
                    current_state_index, params, snow, payload, stopped, late_sends,
                    reinits, fail_run, senderFrame >>

\* ON and OFF commands and send threads whose cycle may raise such an exception
NextSendBreak ==
    \/ \E data \in {<< "O", "N" >>, << "O", "F", "F" >>} : Control(data)
    \/ \E i \in SendThreads : SendStart(i)
    \/ \E i \in SendThreads : SendCheck(i)
    \/ \E i \in SendThreads : target[i] <= MaxSenderClock /\ SendWait(i)
    \/ \E i \in SendThreads : cycle_count < MaxCycles /\ SendOk(i)
    \/ \E i \in SendThreads : SendBreak(i)
    \/ snow < MaxSenderClock /\ SenderTick

SpecSendBreak == Init /\ [][NextSendBreak]_vars

\* sessions long enough to leave the IDLE phase, stopped and started again
NextRestart ==
    \/ \E data \in {<< "O", "N" >>, << "O", "F", "F" >>} : Control(data)
    \/ \E i \in SendThreads : SendStart(i)
    \/ \E i \in SendThreads : SendCheck(i)
    \/ \E i \in SendThreads : target[i] <= MaxRestartClock /\ SendWait(i)
    \/ \E i \in SendThreads : cycle_count < MaxRestartCycles /\ SendOk(i)
    \/ snow < MaxRestartClock /\ SenderTick

SpecRestart == Init /\ [][NextRestart]_vars

\* one session on a network where sendto may fail
NextSendErrors ==
    \/ Control(<< "O", "N" >>)
    \/ \E i \in SendThreads : SendStart(i)
    \/ \E i \in SendThreads : SendCheck(i)
    \/ \E i \in SendThreads : target[i] <= MaxErrorClock /\ SendWait(i)
    \/ \E i \in SendThreads : cycle_count < MaxErrorCycles /\ SendOk(i)
    \/ \E i \in SendThreads : (network_errors < ERROR_LIMIT \/ reinits < MaxReinits) /\ SendFail(i)
    \/ snow < MaxErrorClock /\ SenderTick

SpecSendErrors == Init /\ [][NextSendErrors]_vars

-----------------------------------------------------------------------------
(* The packet format: the sender formats a sample (disp2.py:307-317), the   *)
(* receiver strips the text of the datagram and parses it (moni2.py:439,    *)
(* 524-540).  A sample is the ordered mapping generate_simulation_data      *)
(* returns: the STATE entry first, then the fields, every value a text.     *)
(* Encoding the text as UTF-8 and decoding it keeps the text.               *)

\* sep.join(texts)
RECURSIVE Join(_, _)
Join(texts, sep) ==
    IF texts = << >> THEN << >>
    ELSE IF Len(texts) = 1 THEN texts[1]
    ELSE texts[1] \o << sep >> \o Join(Tail(texts), sep)

\* [f"{key}:{value}" for key, value in data.items() if key != "STATE"]
RECURSIVE FieldTexts(_)
FieldTexts(data) ==
    IF data = << >> THEN << >>
    ELSE IF Head(data)[1] = <<"STATE">> THEN FieldTexts(Tail(data))
    ELSE << Head(data)[1] \o << ":" >> \o Head(data)[2] >> \o FieldTexts(Tail(data))

\* disp2.py:307-317
FormatPacket(data) ==
    LET state == DictGet(data, <<"STATE">>)
        fields == FieldTexts(data)
    IN  state \o << "|" >> \o Join(fields, ",")

SampleStates == { <<"IDLE">>, <<"MAIN_FUELING">> }

SampleNames == { <<"SOC">>, <<"MP">>, << "MT", " " >> }

SampleValues == { <<"10">>, << >>, << "1", " ", "2" >>, << " ", "7" >>, << "7", " " >>,
                  << "1", ":", "2" >>, << "1", ",", "2" >> }

\* ordered mappings of at most MaxFields fields with distinct names
Samples ==
    { << << <<"STATE">>, st >> >> \o fs :
        st \in SampleStates,
        fs \in { f \in UNION { [1..n -> SampleNames \X SampleValues] : n \in 0..MaxFields } :
                    \A i, j \in 1..Len(f) : f[i][1] = f[j][1] => i = j } }

InitCodec == InitLoop /\ InitState /\ tx_data \in Samples

codecFrame == << pipeVars, loopVars, timestamp, fed, guiVars, off_time, sessVars, senderVars,
                error_count, fired, late, phase_payloads, cursor_active, cursor_idx, is_running, control_thread, run_pc, bind_failed,
                ref_rows, ref_index, ref_last >>

\* disp2.py:357: packet = self.format_udp_packet(sim_data)
Format ==
    /\ tx_packet = << >>
    /\ tx_packet' = FormatPacket(tx_data)
    /\ UNCHANGED << tx_data, rx_data, codecFrame >>

\* moni2.py:438-439, 524-540: the datagram is decoded, stripped and parsed
Decode ==
    /\ tx_packet # << >>
    /\ rx_data = << >>
    /\ rx_data' = ParseLine(Strip(tx_packet))
    /\ UNCHANGED << tx_data, tx_packet, codecFrame >>

NextCodec == Format \/ Decode

SpecCodec == InitCodec /\ [][NextCodec]_vars

(***************************************************************************)
(* The sender's payloads on their way to the receiver: one send session    *)
(* that wakes up on time, and a receiver session that was started before   *)
(* it and takes the datagrams in the order they were sent.                 *)
(***************************************************************************)

\* a phase order that puts MAIN_FUELING before STARTUP
simulation_states_Swapped == << <<"IDLE">>, <<"MAIN_FUELING">>, <<"STARTUP">>, <<"SHUTDOWN">> >>

\* disp2.py:150
simulation_states == << <<"IDLE">>, <<"STARTUP">>, <<"MAIN_FUELING">>, <<"SHUTDOWN">> >>

\* disp2.py:198-304: the sample of a cycle, with the fields that do not
\* depend on random draws: STATE, one field computed from cycle_count and one
\* constant field per phase (OUTDOOR_TEMP stands for the first field of line
\* 256, whose name is not written in ASCII)
GenerateData(index, count) ==
    LET state == simulation_states[index + 1]
    IN  IF state = <<"IDLE">>
        THEN << << <<"STATE">>, <<"IDLE">> >>,
                << <<"OUTDOOR_TEMP">>, << ToString(20 + (count % 10)) >> >>,
                << <<"SOC">>, << "10.0" >> >> >>
        ELSE IF state = <<"STARTUP">>
        THEN << << <<"STATE">>, <<"STARTUP">> >>,
                << <<"MT">>, << ToString(-5 + (count % 8)) >> >>,
                << <<"TV">>, <<"OPEN">> >> >>
        ELSE IF state = <<"MAIN_FUELING">>
        THEN << << <<"STATE">>, <<"MAIN_FUELING">> >>,
                << <<"MT">>, << ToString(15 + (count % 10)) >> >>,
                << <<"TV">>, <<"MODULATE">> >> >>
        ELSE << << <<"STATE">>, <<"SHUTDOWN">> >>,
                << <<"MT">>, << ToString(25 + (count % 5)) >> >>,
                << <<"TV">>, <<"CLOSE">> >> >>

\* disp2.py:356-357: the packet of the cycle that is about to send
SentPacket == FormatPacket(GenerateData(current_state_index, cycle_count))

\* payloads of the session, datagrams on the way at one time, and deliveries
\* whose distance in time is varied
MaxLinkFired == 305
MaxInFlight == 1
MaxVariedGaps == 3

\* distances between the timestamps of two deliveries, in 10 ms: just above the
\* suppressor's window, and the send interval
LinkGaps == {DUP_WINDOW + 1, 100}

\* disp2.py:353-409 with the datagram of line 367 reaching the receiver's socket
SendDelivered(i) ==
    /\ SendAndAdvance(i)
    /\ sockbuf' = Append(sockbuf, SentPacket)
    /\ UNCHANGED << pipeVars, data_on, rpc, now, deadline, busy_until, arrivals, timestamp,
                    fed, guiVars, off_time, sessVars, auxVars >>

\* moni2.py:428-568: one iteration of the receive loop that takes the oldest
\* datagram, gap after the iteration before
LinkReceive(gap) ==
    /\ data_on
    /\ sockbuf # << >>
    /\ timestamp' = timestamp + gap
    /\ Pipeline(Strip(Head(sockbuf)), timestamp')
    /\ sockbuf' = Tail(sockbuf)
    /\ UNCHANGED << data_on, rpc, now, deadline, busy_until, arrivals, fed, extVars >>

NextLink ==
    \/ Control(<< "O", "N" >>)
    \/ \E i \in SendThreads : SendStart(i)
    \/ \E i \in SendThreads : SendCheck(i)
    \/ \E i \in SendThreads : fired < MaxLinkFired /\ SendWaitLate(i, 0)
    \/ \E i \in SendThreads : Len(sockbuf) < MaxInFlight /\ SendDelivered(i)
    \/ \E gap \in (IF Len(data_rows) < MaxVariedGaps THEN LinkGaps ELSE {100}) : LinkReceive(gap)

SpecLink == Init /\ [][NextLink]_vars

-----------------------------------------------------------------------------
(* The cursor of the GUI beside the receiver, in the long session a few    *)
(* lines before the log is full: the slider sets the cursor, update_all    *)
(* shows the row at the cursor, the receiver appends and evicts.           *)

\* positions the slider is moved to
SliderValues == {0, 1, EVICT_EXTRA, EVICT_EXTRA + 1, MAX_DATA_POINTS - 3}

CursorRunLength == MAX_DATA_POINTS + 2

\* moni2.py:845-852 with idx given: row = data_rows[idx] when idx < len(data_rows)
CursorRow(rows, idx, row) == IF idx < Len(rows) THEN rows[idx + 1] ELSE row

cursorFrame == << off_time, sessVars, senderVars, error_count, fired, late, phase_payloads,
                 is_running, control_thread, run_pc, bind_failed,
                 tx_data, tx_packet, rx_data, ref_rows, ref_index, ref_last >>

\* moni2.py:1445-1448
OnSlider(val) ==
    /\ cursor_active' = TRUE
    /\ cursor_idx' = val
    /\ UNCHANGED << pipeVars, loopVars, timestamp, fed, guiVars, cursorFrame >>

\* moni2.py:1498-1514 with a slider and a log that is not empty: in live mode
\* the cursor follows the newest row, and slider.set_val runs on_slider, which
\* activates the cursor; then update_state_panel(cursor_idx) reads the row at
\* the cursor under the lock (lines 844-852)
CursorUpdateAll ==
    /\ data_rows # << >>
    /\ lock = "free"
    /\ IF data_on /\ ~cursor_active
       THEN /\ cursor_idx' = Len(data_rows) - 1
            /\ cursor_active' = TRUE
       ELSE UNCHANGED << cursor_active, cursor_idx >>
    /\ latest_row' = IF cursor_active' THEN CursorRow(data_rows, cursor_idx', latest_row)
                                        ELSE data_rows[Len(data_rows)]
    /\ UNCHANGED << pipeVars, loopVars, timestamp, fed, lock, wpc, gpc, shown_time, cursorFrame >>

NextCursor ==
    \/ fed < CursorRunLength /\ LogAppend
    \/ \E val \in SliderValues : val < Len(data_rows) /\ OnSlider(val)
    \/ CursorUpdateAll

SpecCursor == InitLock /\ [][NextCursor]_vars

-----------------------------------------------------------------------------
(* Properties of the ingestion loop, checked under Spec *)

StoredState(row) == DictGet(row[2], <<"STATE">>)

HasStateToken(ln) == Contains(ln, "|")

PassedValidator(v) == v \in {"duplicate", "appended"}

\* C1: along the log, the phase index of the stored STATE never decreases from
\* one appended sample to the next, except when the later sample is IDLE.
C1_PhaseIndexNeverDecreases ==
    \A i \in 1..(Len(data_rows) - 1) :
        LET earlier == StoredState(data_rows[i])
            later == StoredState(data_rows[i + 1])
        IN  (KnownPhase(earlier) /\ KnownPhase(later))
                => \/ later = <<"IDLE">>
                   \/ PhaseIndex(later) >= PhaseIndex(earlier)

C3_UnknownStateOnlyAsAnchor ==
    [][ ( /\ line' # << >>
          /\ HasStateToken(line')
          /\ ~KnownPhase(TempState(line')) )
        => IF Len(data_rows) = 0
           THEN /\ verdict' = "appended"
                /\ current_sequence_index' = current_sequence_index
           ELSE /\ verdict' = "order_reject"
                /\ data_rows' = data_rows ]_vars

\* C4: with an empty log, a line carrying a state token is admitted and
\* appended whatever its state, and the expected index becomes the index of
\* that state when it is one of the four phases (and is left alone otherwise).
C4_FirstSampleAdmitted ==
    [][ ( Len(data_rows) = 0 /\ HasStateToken(line') )
        => ( /\ verdict' = "appended"
             /\ Len(data_rows') = 1
             /\ data_rows'[1] = << timestamp', ParseLine(line') >>
             /\ IF KnownPhase(TempState(line'))
                THEN current_sequence_index' = PhaseIndex(TempState(line'))
                ELSE current_sequence_index' = current_sequence_index ) ]_vars

\* C4 witness: the first sample of the session was SHUTDOWN and set the
\* expected index to 3.
C4_Witness ==
    /\ Len(data_rows) = 1
    /\ verdict = "appended"
    /\ TempState(line) = <<"SHUTDOWN">>
    /\ current_index = 0
    /\ current_sequence_index = 3

C7_RepeatKeepsIndex ==
    [][ ( /\ HasStateToken(line')
          /\ KnownPhase(TempState(line'))
          /\ PhaseIndex(TempState(line')) = current_sequence_index )
        => ( /\ PassedValidator(verdict')
             /\ current_sequence_index' = current_sequence_index ) ]_vars

\* C7 witness: a second MAIN_FUELING sample was appended while MAIN_FUELING
\* was expected.
C7_Witness ==
    /\ TempState(line) = <<"MAIN_FUELING">>
    /\ current_index = 2
    /\ current_sequence_index = 2
    /\ verdict = "appended"
    /\ Len(data_rows) >= 2

\* C8: a line that reaches the duplicate suppressor is dropped exactly when
\* its text equals the remembered line and its time is less than 200 ms after
\* the remembered time; a dropped line leaves the remembered line and time
\* (and the log) as they were, any other line is appended and becomes the
\* remembered line and time.
C8_DuplicateRule ==
    [][ PassedValidator(verdict')
        => /\ verdict' = "duplicate"
              <=> ( /\ line' = last_received_data.content
                    /\ timestamp' - last_received_data.timestamp < DUP_WINDOW )
           /\ verdict' = "duplicate"
              => ( /\ last_received_data' = last_received_data
                   /\ data_rows' = data_rows )
           /\ verdict' = "appended"
              => ( /\ last_received_data' = [content |-> line', timestamp |-> timestamp']
                   /\ Len(data_rows') = Len(data_rows) + 1
                   /\ data_rows'[Len(data_rows')][1] = timestamp' ) ]_vars

\* C8 witness: of three identical lines 190 ms apart the second was dropped
\* and the third, 380 ms after the remembered one, was appended.
C8_Witness ==
    /\ Len(data_rows) = 2
    /\ verdict = "appended"
    /\ line = <<"IDLE", "|", "SOC", ":", "10">>
    /\ data_rows[1] = << 0, ParseLine(line) >>
    /\ data_rows[2] = << 38, ParseLine(line) >>

-----------------------------------------------------------------------------
(* Properties of the receive loop in time, checked under SpecRecv *)

BothHandled == Len(arrivals) = 2 /\ sockbuf = << >>

\* C9: two identical wire lines whose datagrams arrive less than 200 ms apart
\* yield exactly one appended sample, and two arriving 300 ms apart yield two,
\* the time compared being the arrival time of each datagram.
C9_DedupByArrivalTime ==
    BothHandled =>
        LET gap == arrivals[2] - arrivals[1] IN
        /\ gap < DUP_WINDOW => Len(data_rows) = 1
        /\ gap = 30 => Len(data_rows) = 2

-----------------------------------------------------------------------------
(* Properties of the concrete scenario, checked under SpecScenario *)

RECURSIVE StoredStates(_)
StoredStates(rows) ==
    IF rows = << >> THEN << >>
    ELSE << StoredState(Head(rows)) >> \o StoredStates(Tail(rows))

-----------------------------------------------------------------------------
(* Properties of the bounded log, checked under SpecLog *)

\* the prefilled initial state is the one the session reaches from the empty log
LogPrefillIsReached == (fed = LogPrefill) => LogStateAfter(LogPrefill)

\* C11: after every completed append the log holds at most MAX = 3600
\* entries, through a run of MAX + 1000 appends.
C11_LogNeverExceedsMax ==
    /\ Len(data_rows) <= MAX_DATA_POINTS
    /\ Len(data_rows) <= fed

\* C11 witness: the append that found the log full has completed and the
\* eviction has brought the log back under the bound.
C11_Witness ==
    /\ fed = MAX_DATA_POINTS + 1
    /\ verdict = "appended"
    /\ Len(data_rows) < fed
    /\ Len(data_rows) <= MAX_DATA_POINTS

\* C12: an append that finds the log holding MAX = 3600 entries leaves it
\* with MAX - 600 + 1 = 3001 entries, the new one included.
C12_EvictionLeaves3001 ==
    [][ ( Len(data_rows) = MAX_DATA_POINTS /\ verdict' = "appended" /\ fed' = fed + 1 )
        => Len(data_rows') = MAX_DATA_POINTS - 600 + 1 ]_vars

\* C13: after any append the log is a contiguous suffix of the sequence of
\* all samples appended in the session, in their order and unmodified,
\* ending with the newest: eviction removes only a prefix of the oldest.
C13_EvictsContiguousPrefix ==
    (fed >= 1) =>
        /\ Len(data_rows) >= 1
        /\ Len(data_rows) <= fed
        /\ \A i \in 1..Len(data_rows) :
              data_rows[i] = LogRow(fed - Len(data_rows) + i)

\* C13 witness: the append of line 3601 evicted a prefix; the log starts with
\* the sample of a later line and ends with the newest.
C13_Witness ==
    /\ fed = MAX_DATA_POINTS + 1
    /\ Len(data_rows) < MAX_DATA_POINTS
    /\ data_rows[Len(data_rows)] = LogRow(fed)
    /\ data_rows[1] = LogRow(fed - Len(data_rows) + 1)

-----------------------------------------------------------------------------
(* Properties of the lock, checked under SpecLock *)

\* a step of the GUI thread that reads the log
GuiReadsLog ==
    /\ gpc \in {"ucv_1044", "ucv_1050", "ucv_1063", "usp_855", "usp_885"}
    /\ gpc' # gpc

\* C14: every write of the log is made by the thread that holds the lock,
\* and every read of the log is made by a thread that holds the lock and
\* never sees the log between an append and its eviction (length MAX + 1).
C14_LogAccessUnderLock ==
    [][ /\ (data_rows' # data_rows) => (lock = "receiver")
        /\ GuiReadsLog => (lock = "gui" /\ Len(data_rows) <= MAX_DATA_POINTS) ]_vars

\* the current-values panel never reads a log that holds more than MAX rows
ReaderNeverSeesOverfullLog ==
    [][ GuiReadsLog => Len(data_rows) <= MAX_DATA_POINTS ]_vars

-----------------------------------------------------------------------------
(* Properties of the receiver thread after OFF, checked under SpecOff *)

\* time the thread is given to notice the flag: the body of the iteration in
\* progress, one sleep of the loop top and two receive timeouts
OffGrace == MaxLag + OFF_SLEEP + 2 * RECV_TIMEOUT

\* C16: after on_off has cleared the run flag, the receiver thread leaves its
\* loop and terminates, at the latest when its receive call has timed out,
\* whatever point of the loop it had reached.
C16_ReceiverTerminatesAfterOff ==
    (~data_on /\ now > off_time + OffGrace) => rpc = "done"

\* once the thread has met the cleared flag at its loop top it only sleeps
OffLoopNeverExits ==
    [][ (~data_on /\ rpc \in {"top", "sleep"}) => rpc' \in {"top", "sleep"} ]_vars

\* a thread that is inside recvfrom with nothing queued when the flag is
\* cleared does terminate
OffDuringReceiveTerminates ==
    [][ (~data_on /\ rpc = "recv" /\ sockbuf = << >> /\ rpc' # rpc) => rpc' = "done" ]_vars

-----------------------------------------------------------------------------
(* Properties of sessions, checked under SpecSession *)

\* C15: once on_on has returned, the log holds only samples received since
\* this ON was pressed, whatever a receiver thread of the previous session
\* was doing meanwhile.
C15_NewSessionLogIsFresh ==
    (opc = "idle") => \A k \in 1..Len(row_epoch) : row_epoch[k] = epoch

-----------------------------------------------------------------------------
(* Properties of the sender, checked under SpecSender and SpecSendErrors *)

\* C17: a send loop that was running when OFF cleared is_sending sends at
\* most one more payload, that of the cycle it was in, and then terminates.
C17_StoppedLoopSendsAtMostOnce ==
    \A i \in SendThreads : late_sends[i] <= 1

\* the part of the sender's state a control payload may change or must leave
sessionState == << is_sending, sthr, params, stopped >>

Started(i) == sthr[i] = "unborn" /\ sthr'[i] = "start"

\* C18: the session state is is_sending, STOPPED or RUNNING.  ON while
\* STOPPED makes it RUNNING and starts one send thread with new session
\* parameters; OFF while RUNNING makes it STOPPED; ON while RUNNING and OFF
\* while STOPPED change nothing: no thread is started, no parameter drawn.
C18_SessionStateMachine ==
    [][ \A data \in Payloads : Control(data) =>
          LET command == Normalize(data) IN
          /\ is_sending' \in BOOLEAN
          /\ (command = << "O", "N" >> /\ ~is_sending) =>
                 /\ is_sending'
                 /\ params' # params
                 /\ \E i \in SendThreads :
                        Started(i) /\ \A j \in SendThreads \ {i} : sthr'[j] = sthr[j]
          /\ (command = << "O", "F", "F" >> /\ is_sending) =>
                 ~is_sending' /\ UNCHANGED << sthr, params >>
          /\ (command = << "O", "N" >> /\ is_sending) => UNCHANGED sessionState
          /\ (command = << "O", "F", "F" >> /\ ~is_sending) => UNCHANGED sessionState
      ]_vars

\* C18 witness: a session was started by ON and stopped by OFF while its send
\* thread was running.
C18_Witness ==
    /\ ~is_sending
    /\ params = 2
    /\ stopped[1]
    /\ Normalize(payload) = << "O", "F", "F" >>

\* payloads that equal ON, or OFF, once trimmed and with case ignored
OnPayloads == { << "O", "N" >>, << " ", "o", "n", " " >> }

OffPayloads == { << "O", "F", "F" >>, << "o", "F", "f", " " >> }

\* C19: a control payload acts as ON or as OFF when it equals that token
\* after trimming whitespace and ignoring case; every other payload leaves
\* is_sending and all other state of the sender unchanged and starts no thread.
C19_OnlyOnAndOffAct ==
    [][ \A data \in Payloads : Control(data) =>
          /\ (data \in OnPayloads /\ ~is_sending) =>
                 is_sending' /\ \E i \in SendThreads : Started(i)
          /\ (data \in OffPayloads /\ is_sending) => ~is_sending'
          /\ (data \notin OnPayloads \cup OffPayloads) =>
                 UNCHANGED << is_sending, sthr, target, start_time, cycle_count,
                              network_errors, current_state_index, params, snow,
                              stopped, late_sends >>
      ]_vars

\* C19 witness: a padded lower-case ON has started the first session, and a
\* payload that is neither token has been handled while a session runs.
C19_Witness ==
    \/ payload = << " ", "o", "n", " " >> /\ is_sending /\ params = 2 /\ sthr[1] = "start"
    \/ payload = << "O", "N", "N" >> /\ is_sending

\* C20: when the send of cycle n fails with a transport error the error
\* counter is incremented (and reset past the threshold) and the loop moves
\* on to cycle n + 1, whose target time is start + (n + 1) * interval.
C20_FailedCycleNotRetried ==
    [][ \A i \in SendThreads : SendFail(i) =>
          /\ network_errors' = IF network_errors + 1 > ERROR_LIMIT THEN 0
                                                                   ELSE network_errors + 1
          /\ cycle_count' = cycle_count + 1 ]_vars

\* the error counter itself is kept as the claim says
ErrorsAreCounted ==
    [][ \A i \in SendThreads : SendFail(i) =>
          network_errors' = IF network_errors + 1 > ERROR_LIMIT THEN 0
                                                                ELSE network_errors + 1 ]_vars

\* a failed send leaves the cycle counter alone: the next attempt is for the
\* same cycle, whose target time has passed
FailedCycleKeepsItsNumber ==
    [][ \A i \in SendThreads : SendFail(i) =>
          UNCHANGED << cycle_count, start_time, snow >> ]_vars

-----------------------------------------------------------------------------
(* Properties of the send loop on a failing network, checked under          *)
(* SpecSendErrors                                                            *)

C29_ReinitOnlyAfterConsecutiveErrors ==
    [][reinits' # reinits => /\ fail_run' > ERROR_LIMIT
                             /\ reinits' = reinits + 1
                             /\ network_errors' = 0]_vars

-----------------------------------------------------------------------------
(* Property of the receive loop on a failing socket, checked under          *)
(* SpecRecvErrors                                                            *)

\* C22: while the run flag is true no number of receive errors ends the
\* ingestion loop.
C22_ReceiveErrorsNeverEndLoop == data_on => rpc # "done"

-----------------------------------------------------------------------------
(* Properties of the send schedule, checked under SpecSchedule: one session *)
(* that starts at time 0, so that the grid time of payload k is             *)
(* k * SEND_INTERVAL                                                         *)

SendsPayload(i) == sthr[i] = "send" /\ sthr'[i] = "check"

\* C23: the target time of every cycle is start_time + cycle_count * interval,
\* and the lateness of a cycle changes neither the count nor a later target:
\* the target after a sent payload is one interval after that payload's target.
C23_TimingErrorNeverFedBack ==
    [][/\ \A i \in SendThreads :
             sthr'[i] \in {"wait", "send"}
                 => target'[i] = start_time' + cycle_count' * SEND_INTERVAL
       /\ \A i \in SendThreads :
             SendsPayload(i)
                 => start_time' + cycle_count' * SEND_INTERVAL = target[i] + SEND_INTERVAL]_vars

\* C24: payload k of the session fires no earlier than its grid time and is
\* late on the grid by no more than the lateness of its own wake-up.
C24_LatenessNeverAccumulates ==
    \A i \in SendThreads :
        sthr[i] = "send"
            => LET grid == (fired - 1) * SEND_INTERVAL
               IN  snow >= grid /\ snow - grid <= late

\* C30: a sent payload leaves the phase or advances it to the next phase of
\* the cycle; the payload that completes SHUTDOWN, and no other, sets
\* start_time to its fire time and restarts the cycle count; nothing else
\* in the session changes the phase or the schedule.
C30_PhaseAdvancesInOrder ==
    [][IF \E i \in SendThreads : SendsPayload(i)
       THEN /\ current_state_index' \in {current_state_index, (current_state_index + 1) % 4}
            /\ IF current_state_index = 3 /\ current_state_index' = 0
               THEN /\ snow - start_time >= StatesCompletedTime(4)
                    /\ start_time' = snow
                    /\ cycle_count' = 1
               ELSE /\ start_time' = start_time
                    /\ cycle_count' = cycle_count + 1
       ELSE /\ current_state_index' = current_state_index
            /\ \/ \E i \in SendThreads : sthr[i] = "start" /\ sthr'[i] = "check"
               \/ start_time' = start_time /\ cycle_count' = cycle_count]_vars

\* the payload after the one that completed SHUTDOWN is about to be sent
C30_Witness ==
    /\ current_state_index = 0
    /\ fired > 150
    /\ cycle_count = 1
    /\ start_time > 0
    /\ \E i \in SendThreads : sthr[i] = "send"

-----------------------------------------------------------------------------
(* Property of the packet format, checked under SpecCodec *)

NoSeparator(text) == ~Contains(text, "|") /\ ~Contains(text, ",") /\ ~Contains(text, ":")

\* C25: a sample whose state, names and values hold none of "|", "," and ":"
\* is decoded from its packet as the same state and the same fields with the
\* same values in the same order.
C25_RoundTrip ==
    (rx_data # << >> /\ \A i \in 1..Len(tx_data) : NoSeparator(tx_data[i][1]) /\ NoSeparator(tx_data[i][2]))
        => rx_data = tx_data

\* the same for samples whose names and values also neither begin nor end
\* with a space
RoundTripOfStrippedTexts ==
    (rx_data # << >> /\ \A i \in 1..Len(tx_data) :
                            /\ NoSeparator(tx_data[i][1]) /\ NoSeparator(tx_data[i][2])
                            /\ Strip(tx_data[i][1]) = tx_data[i][1]
                            /\ Strip(tx_data[i][2]) = tx_data[i][2])
        => rx_data = tx_data

-----------------------------------------------------------------------------
(* Property of the parser on lines without a state token, checked under Spec *)

\* C26: a received non-empty line without "|" is not dropped by the parser:
\* unless it is suppressed as a duplicate it is appended as a sample whose
\* state is the entire line and which has no fields.
C26_LegacyLineIsBareState ==
    (line # << >> /\ ~HasStateToken(line))
        => /\ verdict \in {"appended", "duplicate"}
           /\ verdict = "appended"
                 => data_rows[Len(data_rows)][2] = << << <<"STATE">>, line >> >>

-----------------------------------------------------------------------------
(* Property of the start of the two programs, checked under SpecStartup *)

\* C27: when setup_sockets fails, run() returns with is_running false and no
\* control listener; when the bind of a receiver thread fails, the receiver is
\* not left ON (data_on true, on_on finished) without a live receiver thread.
C27_FailedBindLeavesNothingRunning ==
    /\ run_pc = "returned" => (~is_running /\ ~control_thread)
    /\ bind_failed => ~(data_on /\ opc = "idle" /\ \A i \in Threads : ~Alive(i))

-----------------------------------------------------------------------------
(* Property of the order of the checks, checked under SpecCompare *)

\* C28: for every sequence of lines and times the log of the receive loop
\* equals the log of the reference pipeline (decode, duplicate suppressor,
\* phase validator, append).
C28_LogEqualsReferenceLog == data_rows = ref_rows

-----------------------------------------------------------------------------
(* Properties of the send threads, checked under SpecSender *)

\* thread i has been started and has not left send_data_loop
Active(i) == sthr[i] \notin {"unborn", "done"}

\* C31: at any time at most one send_data_loop thread is active, whatever
\* the sequence and timing of the ON and OFF commands.
C31_AtMostOneSendLoop ==
    \A i, j \in SendThreads : (Active(i) /\ Active(j)) => i = j

\* the weaker statement that no two threads are about to send a payload at
\* the same time
NoTwoLoopsSend ==
    \A i, j \in SendThreads : (sthr[i] = "send" /\ sthr[j] = "send") => i = j

-----------------------------------------------------------------------------
(* Property of the receiver threads, checked under SpecSession *)

\* thread i is past the flag test of its loop top: it is in recvfrom or
\* processes a datagram, and appends what the checks let through
Ingesting(i) == thr[i] \in {"recv", "held"}

\* C32: at any time at most one receiver thread is able to append to the log:
\* a thread of an earlier session does not ingest beside the thread of a
\* later one.
C32_AtMostOneReceiverIngests ==
    \A i, j \in Threads : (Ingesting(i) /\ Ingesting(j)) => i = j

-----------------------------------------------------------------------------
(* Properties of the stored state and of suppressed lines, checked under Spec *)

\* C33: the STATE stored with an appended sample is the state token the
\* validator examined for its line, the text before the first "|", whatever
\* the fields of the line are.
C33_StoredStateIsValidatedToken ==
    (verdict = "appended" /\ HasStateToken(line))
        => StoredState(data_rows[Len(data_rows)]) = TempState(line)

\* C34: a line dropped by the duplicate suppressor leaves the expected phase
\* index as it was before the line was processed.
C34_SuppressedLineKeepsIndex ==
    [][verdict' = "duplicate" => current_sequence_index' = current_sequence_index]_vars

\* a line with a known state past IDLE was validated and then suppressed
C34_Witness ==
    /\ verdict = "duplicate"
    /\ HasStateToken(line)
    /\ KnownPhase(TempState(line))
    /\ current_sequence_index > 0

-----------------------------------------------------------------------------
(* Property of the session flag, checked under SpecSendBreak *)

\* C35: whenever is_sending is true a send loop is running, and an ON
\* command handled while no send loop is running starts one.
C35_SendingMeansLoopRuns ==
    [][/\ is_sending' => \E i \in SendThreads : sthr'[i] \notin {"unborn", "done"}
       /\ (Control(<< "O", "N" >>) /\ \A i \in SendThreads : ~Active(i))
             => \E i \in SendThreads : Started(i)]_vars

-----------------------------------------------------------------------------
(* Property of the start of a send session, checked under SpecRestart *)

\* C36: a send loop started by ON begins in phase IDLE with no time elapsed
\* in the phase, whatever phase the previous session was stopped in (stated
\* for a loop that starts when the loop of the previous session has ended).
C36_SessionBeginsInIdle ==
    [][\A i \in SendThreads :
         (sthr[i] = "start" /\ sthr'[i] = "check" /\ \A j \in SendThreads \ {i} : ~Active(j))
             => /\ current_state_index' = 0
                /\ (snow' - start_time') - StatesCompletedTime(current_state_index') = 0]_vars

(***************************************************************************)
(* Properties of a send session that wakes up on time and of its payloads  *)
(* at the receiver, checked under SpecLink                                 *)
(***************************************************************************)

\* phase p of the phase cycle under way has sent its last payload
PhaseDone(p) == current_state_index > p \/ (current_state_index = 0 /\ phase_payloads[4] > 0)

\* the clock counts half seconds
InSeconds(t) == t \div 2

PayloadsMatchDurations ==
    \A p \in 0..3 : PhaseDone(p) => phase_payloads[p + 1] = InSeconds(state_durations[p + 1])

\* C37: with no timing error, every phase of every phase cycle, the first
\* cycle of the session included, sends as many payloads as its duration has
\* seconds (5, 5, 120, 20)
C37_PayloadsPerPhase == PayloadsMatchDurations

\* the phase cycles after the first, which ends with payload 151, send 5, 5,
\* 120 and 20 payloads
PayloadsMatchInLaterCycles == fired > 151 => PayloadsMatchDurations

\* in the first cycle STARTUP, MAIN_FUELING and SHUTDOWN send 5, 120 and 20
PayloadsMatchAfterIdle ==
    \A p \in 1..3 : PhaseDone(p) => phase_payloads[p + 1] = InSeconds(state_durations[p + 1])

\* the first IDLE phase of a session sends six payloads
FirstIdleSendsSix == (start_time = 0 /\ PhaseDone(0)) => phase_payloads[1] = 6

\* C38: every payload of the send session that the receiver session takes,
\* in send order and more than 200 ms after the one before, passes the phase
\* validator and is appended to the log with the phase it was sent in, over
\* the phase cycles of the session
C38_SenderPayloadsAreAppended ==
    [][timestamp' # timestamp =>
         /\ line' = Head(sockbuf)
         /\ verdict' = "appended"
         /\ Len(data_rows') = Len(data_rows) + 1
         /\ StoredState(data_rows'[Len(data_rows')]) = TempState(Head(sockbuf))]_vars

\* the first IDLE payload after a phase wrap has been appended behind the last
\* SHUTDOWN payload of the cycle before
C38_Witness ==
    /\ verdict = "appended"
    /\ Len(data_rows) > 150
    /\ StoredState(data_rows[Len(data_rows)]) = <<"IDLE">>
    /\ StoredState(data_rows[Len(data_rows) - 1]) = <<"SHUTDOWN">>

(***************************************************************************)
(* Properties of the cursor, checked under SpecCursor                      *)
(***************************************************************************)

\* the sample the cursor designates: the row update_state_panel reads for it
Designated == CursorRow(data_rows, cursor_idx, << >>)

\* C39: while the cursor is active and is not moved, an append to the log,
\* with or without an eviction, leaves the sample the cursor designates the
\* same sample
C39_CursorKeepsItsSample ==
    [][(cursor_active /\ cursor_active' /\ cursor_idx' = cursor_idx /\ data_rows' # data_rows)
           => Designated' = Designated]_vars

\* appends that do not evict leave the sample the cursor designates the same
CursorKeepsItsSampleWithoutEviction ==
    [][(cursor_active /\ cursor_active' /\ cursor_idx' = cursor_idx
           /\ Len(data_rows') = Len(data_rows) + 1)
           => Designated' = Designated]_vars

====
